---------------------------- MODULE Spec2Model ----------------------------
(***************************************************************************)
(* A model of the NFT sales bot of src/main.py: sale discovery through the *)
(* sales -> token activity -> order fills fallback chain                   *)
(* (fetch_recent_sales), the persisted list of announced sale ids          *)
(* (load_processed_sales / save_processed_sales), the processing of one    *)
(* discovered batch (process_new_sales) and the poll loop (main).          *)
(*                                                                         *)
(* Strings the code inspects character by character (contract addresses,   *)
(* which it lower-cases before comparing,                                   *)
(* token ids and token names, which it parses and slices) are sequences of  *)
(* one-character strings; strings it only compares or stores (order        *)
(* hashes) are TLA+ strings.  Python's None and an absent dictionary key are the    *)
(* explicit kinds "null" and "missing".                                     *)
(***************************************************************************)
EXTENDS Integers, Sequences, FiniteSets, TLC

(***************************************************************************)
(* Bounds of the model.                                                    *)
(***************************************************************************)
\* longest list of sales the sales endpoint answers in the poll loop
MaxBatch == 2
\* longest list of entries an endpoint answers in the discovery specification
MaxResp == 2

(***************************************************************************)
(* Configuration (module level of main.py).                                *)
(***************************************************************************)
\* CONTRACT_ADDRESS, shortened to its first characters
CONTRACT_ADDRESS == <<"0", "x", "4", "2", "4", "d">>
\* the same address in checksum (mixed) case, as an upstream may spell it
ContractMixedCase == <<"0", "x", "4", "2", "4", "D">>
\* the address of some other collection
ContractOther == <<"0", "x", "9", "9", "9", "f">>

\* the names bound at module level when the bot runs (lines 1-38 and the defs)
ModuleGlobals ==
    {"RESERVOIR_API_KEY", "CONTRACT_ADDRESS", "RESERVOIR_BASE_URL",
     "TWITTER_API_KEY", "TWITTER_API_SECRET", "TWITTER_ACCESS_TOKEN",
     "TWITTER_ACCESS_TOKEN_SECRET", "CHECK_INTERVAL", "REGULAR_CHECK_INTERVAL",
     "DATA_DIR", "PROCESSED_SALES_FILE"}

CHECK_INTERVAL == 120
REGULAR_CHECK_INTERVAL == 300

(***************************************************************************)
(* str.lower() on a sequence of characters.                                *)
(***************************************************************************)
LowerChar(c) ==
    CASE c = "A" -> "a" [] c = "B" -> "b" [] c = "C" -> "c"
      [] c = "D" -> "d" [] c = "E" -> "e" [] c = "F" -> "f"
      [] c = "X" -> "x" [] OTHER -> c

Lower(s) == [i \in DOMAIN s |-> LowerChar(s[i])]

(***************************************************************************)
(* JSON values.  A value of a dictionary entry is                          *)
(*   [kind |-> "missing"]  the key is absent                               *)
(*   [kind |-> "null"]     the key holds null (None)                       *)
(*   [kind |-> "str"]      a string, val its characters                    *)
(*   [kind |-> "num"]      a number, num its value                         *)
(***************************************************************************)
Missing == [kind |-> "missing", val |-> <<>>, num |-> 0]
Null == [kind |-> "null", val |-> <<>>, num |-> 0]
Str(s) == [kind |-> "str", val |-> s, num |-> 0]
Num(n) == [kind |-> "num", val |-> <<>>, num |-> n]

\* the order hash of a record without the key
NoOrderHash == "<missing>"

(***************************************************************************)
(* A sale record as process_new_sales and format_sale_message read it:     *)
(*   id          sale["id"]                                                *)
(*   orderHash   sale["orderHash"], NoOrderHash when the key is absent     *)
(*   orderSide   sale["orderSide"]                                         *)
(*   token       "dict", "null" or "missing": the kind of sale["token"]    *)
(*   contract    sale["token"]["contract"]                                 *)
(*   tokenId     sale["token"]["tokenId"]                                  *)
(*   name        sale["token"]["name"]                                     *)
(*   price       "dict" (price.amount.decimal is a number) or "null"       *)
(*   timestamp   "none", "parsed" or "now"                                 *)
(***************************************************************************)
Sale(id, orderHash, orderSide, token, contract, tokenId, name, price, timestamp) ==
    [id |-> id, orderHash |-> orderHash, orderSide |-> orderSide,
     token |-> token, contract |-> contract, tokenId |-> tokenId,
     name |-> name, price |-> price, timestamp |-> timestamp]

\* Sales as the sales endpoint lists them.
SaleA ==
    Sale("s1", "0xh1", "ask", "dict", Str(CONTRACT_ADDRESS), Str(<<"7">>),
         Str(<<"P", " ", "#", "7">>), "dict", "none")
SaleB ==
    Sale("s2", "0xh2", "bid", "dict", Str(ContractMixedCase), Str(<<"0", "8">>),
         Null, "dict", "none")
SaleNoHash ==
    Sale("s3", NoOrderHash, "ask", "dict", Str(CONTRACT_ADDRESS), Str(<<"9">>),
         Null, "dict", "none")
SaleOther ==
    Sale("s4", "0xh4", "ask", "dict", Str(ContractOther), Str(<<"7">>),
         Null, "dict", "none")
SaleNullToken ==
    Sale("s5", "0xh5", "ask", "null", Missing, Missing, Missing, "dict", "none")
SaleNumContract ==
    Sale("s6", "0xh6", "ask", "dict", Num(5), Str(<<"7">>), Null, "dict", "none")
SaleNullPrice ==
    Sale("s7", "0xh7", "ask", "dict", Str(CONTRACT_ADDRESS), Str(<<"7">>),
         Null, "null", "none")

\* An entry of the token activity endpoint.
Activity(id, type, token, tokenId, contract) ==
    [id |-> id, type |-> type, token |-> token, tokenId |-> tokenId,
     contract |-> contract]

ActSale1 == Activity("a1", "sale", "dict", Str(<<"1", "1">>), Str(CONTRACT_ADDRESS))
ActSale2 == Activity("a2", "sale", "dict", Str(<<"1", "2">>), Str(CONTRACT_ADDRESS))
ActTransfer == Activity("a3", "transfer", "dict", Str(<<"1", "3">>), Str(CONTRACT_ADDRESS))
ActNullToken == Activity("a4", "sale", "null", Missing, Str(CONTRACT_ADDRESS))

\* An entry of the order fills endpoint; createdAt is "missing", "iso" (an
\* ISO-8601 time) or "bad" (a string datetime.fromisoformat rejects).
Fill(id, orderHash, contract, tokenId, createdAt) ==
    [id |-> id, orderHash |-> orderHash, contract |-> contract,
     tokenId |-> tokenId, createdAt |-> createdAt]

FillMatch == Fill("f1", "0xf1", Str(CONTRACT_ADDRESS), Str(<<"2", "1">>), "iso")
FillMixedCase == Fill("f2", "0xf2", Str(ContractMixedCase), Str(<<"2", "2">>), "iso")
FillOther == Fill("f3", "0xf3", Str(ContractOther), Str(<<"2", "3">>), "iso")
FillNoTime == Fill("f4", "0xf4", Str(CONTRACT_ADDRESS), Str(<<"2", "4">>), "missing")
FillBadTime == Fill("f5", "0xf5", Str(CONTRACT_ADDRESS), Str(<<"2", "5">>), "bad")

(***************************************************************************)
(* An HTTP exchange with one endpoint:                                     *)
(*   raises  requests.get raises (network error)                           *)
(*   status  the status code                                               *)
(*   json    response.json() parses                                        *)
(*   items   the list under the endpoint's key ("sales", "activities",     *)
(*           "fills")                                                      *)
(***************************************************************************)
NetError == [raises |-> TRUE, status |-> 0, json |-> FALSE, items |-> <<>>]
HttpError == [raises |-> FALSE, status |-> 500, json |-> TRUE, items |-> <<>>]
BadJson == [raises |-> FALSE, status |-> 200, json |-> FALSE, items |-> <<>>]
Ok(items) == [raises |-> FALSE, status |-> 200, json |-> TRUE, items |-> items]

SeqsUpTo(S, n) == UNION {[1..k -> S] : k \in 0..n}

Responses(S, n) == {NetError, HttpError, BadJson} \cup {Ok(l) : l \in SeqsUpTo(S, n)}


(***************************************************************************)
(* The outcome of a block of code: it raised an exception, it returned     *)
(* value from the enclosing function, or it fell through to the statement  *)
(* after it.                                                               *)
(***************************************************************************)
Raised == [raised |-> TRUE, returned |-> FALSE, value |-> <<>>]
Returned(v) == [raised |-> FALSE, returned |-> TRUE, value |-> v]
FellThrough == [raised |-> FALSE, returned |-> FALSE, value |-> <<>>]

\* try: body / except Exception: print(...)   -- execution goes on after it
TryExceptContinue(body) == IF body.raised THEN FellThrough ELSE body

\* try: body / except Exception: return []
TryExceptReturnEmpty(body) == IF body.raised THEN Returned(<<>>) ELSE body

(***************************************************************************)
(* fetch_sales_with_params: the sales endpoint.                            *)
(***************************************************************************)
\* lines 257-272, the body of the try
SalesBody(resp) ==
    IF resp.raises THEN Raised
    ELSE IF resp.status = 200
         THEN IF resp.json THEN Returned(resp.items) ELSE Raised
         ELSE Returned(<<>>)

fetch_sales_with_params(resp) == TryExceptReturnEmpty(SalesBody(resp))

(***************************************************************************)
(* The token activity strategy, lines 132-167.                             *)
(***************************************************************************)
\* lines 152-160: activity.get("token", {}).get("tokenId") raises on a null
\* token; the converted sale has no orderHash key and orderSide "ask"
ConvertActivity(activity) ==
    IF activity.token = "null" THEN Raised
    ELSE Returned(Sale(activity.id, NoOrderHash, "ask", "dict",
                       activity.contract,
                       IF activity.token = "dict" THEN activity.tokenId ELSE Null,
                       Missing, "dict", "none"))

RECURSIVE ConvertActivities(_)
\* lines 148-161: the loop over the activities
ConvertActivities(activities) ==
    IF activities = <<>> THEN Returned(<<>>)
    ELSE LET activity == Head(activities) IN
         IF activity.type = "sale"
         THEN LET c == ConvertActivity(activity) IN
              IF c.raised THEN Raised
              ELSE LET rest == ConvertActivities(Tail(activities)) IN
                   IF rest.raised THEN Raised
                   ELSE Returned(<<c.value>> \o rest.value)
         ELSE ConvertActivities(Tail(activities))

\* lines 133-165, the body of the try
ActivityBody(resp) ==
    IF resp.raises THEN Raised
    ELSE IF resp.status # 200 THEN FellThrough
    ELSE IF ~resp.json THEN Raised
    ELSE IF resp.items = <<>> THEN FellThrough
    ELSE LET converted_sales == ConvertActivities(resp.items) IN
         IF converted_sales.raised THEN Raised
         ELSE IF converted_sales.value # <<>>
              THEN Returned(converted_sales.value)
              ELSE FellThrough

\* a variant without the try/except around the activity request
ActivityUnguarded(resp) == ActivityBody(resp)

ActivityStrategy(resp) == TryExceptContinue(ActivityBody(resp))

(***************************************************************************)
(* The order fills strategy, lines 170-234.                                *)
(***************************************************************************)
\* line 201: fill.get("contract") == CONTRACT_ADDRESS
FillMatches(fill) ==
    fill.contract.kind = "str" /\ fill.contract.val = CONTRACT_ADDRESS

\* lines 203-225: the dictionary display is evaluated entry by entry; the
\* global COLLECTION_SLUG (line 212) is looked up before price and
\* timestamp, and datetime.fromisoformat (line 224) raises on a bad string
ConvertFill(fill) ==
    IF "COLLECTION_SLUG" \notin ModuleGlobals THEN Raised
    ELSE IF fill.createdAt = "bad" THEN Raised
    ELSE Returned(Sale(fill.id, fill.orderHash, "bid", "dict", fill.contract,
                       fill.tokenId, Null, "dict",
                       IF fill.createdAt = "missing" THEN "now" ELSE "parsed"))

RECURSIVE ConvertFills(_)
\* lines 198-226: the loop over the fills
ConvertFills(fills) ==
    IF fills = <<>> THEN Returned(<<>>)
    ELSE LET fill == Head(fills) IN
         IF FillMatches(fill)
         THEN LET c == ConvertFill(fill) IN
              IF c.raised THEN Raised
              ELSE LET rest == ConvertFills(Tail(fills)) IN
                   IF rest.raised THEN Raised
                   ELSE Returned(<<c.value>> \o rest.value)
         ELSE ConvertFills(Tail(fills))

\* lines 183-230, the body of the try
FillsBody(resp) ==
    IF resp.raises THEN Raised
    ELSE IF resp.status # 200 THEN FellThrough
    ELSE IF ~resp.json THEN Raised
    ELSE IF resp.items = <<>> THEN FellThrough
    ELSE LET converted_sales == ConvertFills(resp.items) IN
         IF converted_sales.raised THEN Raised
         ELSE IF converted_sales.value # <<>>
              THEN Returned(converted_sales.value)
              ELSE FellThrough

FillsStrategy(resp) == TryExceptContinue(FillsBody(resp))

(***************************************************************************)
(* fetch_recent_sales.  upstream holds the exchange each endpoint would    *)
(* answer with; the result names the endpoints queried, in order.          *)
(***************************************************************************)
\* a variant that never takes the early return
SalesFoundNever(sales) == FALSE

\* line 114: if sales:
SalesFound(sales) == sales # <<>>

\* line 170: if include_bids:
BidsWanted(include_bids) == include_bids

FetchResult(raised, result, requests) ==
    [raised |-> raised, result |-> result, requests |-> requests]

\* seconds since the epoch at the time of the call, and seconds per day
Now == 1000000

\* line 98: start_time
StartTime(max_age_days) == Now - max_age_days * 86400

\* a variant that sends start_time with every request
TimeParamsSent(start_time) == <<start_time>>

\* lines 104-109, 122-128 and 175-180: the time parameters among params,
\* activity_params and fills_params: there are none
TimeParams(start_time) == <<>>

\* the time parameters of the requests of one call
RequestTimeParams(max_age_days) == TimeParams(StartTime(max_age_days))

FetchRecentSales(include_bids, max_age_days, upstream) ==
    LET start_time == StartTime(max_age_days)
        sales == fetch_sales_with_params(upstream.sales)
    IN  IF sales.raised THEN FetchResult(TRUE, <<>>, <<"sales">>)
        ELSE IF SalesFound(sales.value)
        THEN FetchResult(FALSE, sales.value, <<"sales">>)
        ELSE LET act == ActivityStrategy(upstream.activity) IN
             IF act.raised
             THEN FetchResult(TRUE, <<>>, <<"sales", "activity">>)
             ELSE IF act.returned
             THEN FetchResult(FALSE, act.value, <<"sales", "activity">>)
             ELSE IF BidsWanted(include_bids)
             THEN LET fills == FillsStrategy(upstream.fills) IN
                  IF fills.raised
                  THEN FetchResult(TRUE, <<>>, <<"sales", "activity", "fills">>)
                  ELSE IF fills.returned
                  THEN FetchResult(FALSE, fills.value,
                                   <<"sales", "activity", "fills">>)
                  ELSE FetchResult(FALSE, <<>>, <<"sales", "activity", "fills">>)
             ELSE FetchResult(FALSE, <<>>, <<"sales", "activity">>)


(***************************************************************************)
(* State.                                                                  *)
(*   mainState       where main's loop is: "IDLE" (line 627), "CHECKING"   *)
(*                   (inside process_new_sales), "COOLDOWN" and "WAITING"  *)
(*                   (the two sleeps), "CRASHED" (an exception left main)  *)
(*   pc              where process_new_sales is: "load", "loop", "done",   *)
(*                   "raised", or "none" outside it                        *)
(*   sleep_s         the argument of the time.sleep in progress            *)
(*   file            data/processed_sales.json: ok (it holds a JSON list)  *)
(*                   and ids (the list)                                    *)
(*   processed_sales, recent_sales, idx, sales_processed                   *)
(*                   the locals of process_new_sales; idx is the position  *)
(*                   of the for loop                                       *)
(*   last            what the last loop iteration did: its outcome, the    *)
(*                   calls it made in order, the image path it got         *)
(*   published       the sale ids appended after a successful publish      *)
(*                   since the process started                             *)
(*   retryDue        the record whose publish failed last and has not      *)
(*                   been published since (at most one element)            *)
(*   cycle           the file as it was when the current poll cycle began, *)
(*                   and the successful publishes of the cycle so far      *)
(*   upstream, include_bids, max_age_days, fetch_out                       *)
(*                   one call of fetch_recent_sales on its own: what the   *)
(*                   endpoints answer, the arguments, the result           *)
(*   fmt_in, fmt_out one call of format_sale_message on its own: the sale  *)
(*                   and what the price sources answer; the price          *)
(*                   get_eth_price gave and the message                    *)
(*   img_in, img_out one call of download_nft_image on its own: what the   *)
(*                   metadata and image hosts answer; the result           *)
(*   post_in, post_out                                                     *)
(*                   one call of post_to_twitter on its own: the image     *)
(*                   path and what the Twitter client does; the result     *)
(*   attempt, test_out                                                     *)
(*                   test_post_last_sale: its attempt counter, and the     *)
(*                   lookbacks it used, the sale ids it published and      *)
(*                   what it returned                                      *)
(***************************************************************************)
VARIABLES mainState, pc, sleep_s, file, processed_sales, recent_sales, idx,
          sales_processed, last, published, retryDue, cycle,
          upstream, include_bids, max_age_days, fetch_out,
          fmt_in, fmt_out, img_in, img_out, post_in, post_out,
          attempt, test_out

vars == <<mainState, pc, sleep_s, file, processed_sales, recent_sales, idx,
          sales_processed, last, published, retryDue, cycle,
          upstream, include_bids, max_age_days, fetch_out,
          fmt_in, fmt_out, img_in, img_out, post_in, post_out,
          attempt, test_out>>

pollVars == <<mainState, pc, sleep_s, file, processed_sales, recent_sales, idx,
              sales_processed, last, published, retryDue, cycle>>

fetchVars == <<upstream, include_bids, max_age_days, fetch_out>>

callVars == <<fmt_in, fmt_out, img_in, img_out, post_in, post_out>>

testVars == <<attempt, test_out>>

(***************************************************************************)
(* The Dedup Store.                                                        *)
(***************************************************************************)
\* lines 40-43: json.load of the file
load_processed_sales(f) == f.ids

\* a variant that writes the list as it was before the last append
SaveStale(ids) ==
    [ok |-> TRUE, ids |-> IF ids = <<>> THEN ids ELSE SubSeq(ids, 1, Len(ids) - 1)]

\* lines 45-48: the file after json.dump wrote the whole list
save_processed_sales(ids) == [ok |-> TRUE, ids |-> ids]

\* the file after open(.., "w") truncated it and the write failed
TruncatedFile == [ok |-> FALSE, ids |-> <<>>]

\* line 510: sale.get("orderHash", "")
SaleId(sale) == IF sale.orderHash = NoOrderHash THEN "" ELSE sale.orderHash

\* a variant that takes every sale for a new one
AlreadyProcessedNever(sale_id, processed) == FALSE

\* line 513: sale_id in processed_sales
AlreadyProcessed(sale_id, processed) ==
    \E i \in DOMAIN processed : processed[i] = sale_id

\* a variant that forgets the append
MarkNothing(processed, sale_id) == processed

\* line 540: processed_sales.append(sale_id)
MarkProcessed(processed, sale_id) == Append(processed, sale_id)

(***************************************************************************)
(* The contract check of lines 523 and 420.                                *)
(***************************************************************************)
\* Python truth value of a JSON value
Truthy(v) ==
    CASE v.kind = "str" -> v.val # <<>>
      [] v.kind = "num" -> v.num # 0
      [] OTHER -> FALSE

\* contract.lower() raises AttributeError on a value that is no string
ContractCheckRaises(contract) == Truthy(contract) /\ contract.kind # "str"

\* a variant that lets every contract through
IsOtherContractNever(contract) == FALSE

\* contract and contract.lower() != CONTRACT_ADDRESS.lower()
IsOtherContract(contract) ==
    Truthy(contract) /\ Lower(contract.val) # Lower(CONTRACT_ADDRESS)

\* lines 519-520: sale.get("token", {}).get(..) raises on a null token
TokenLookupRaises(sale) == sale.token = "null"

(***************************************************************************)
(* get_eth_price, lines 50-84.  A price source answers like an endpoint;   *)
(* shape is the key found in its JSON body ("ethereum" with a "usd" entry, *)
(* "ethereum_no_usd" without one, "USD", or "other") and price the value   *)
(* under it.                                                               *)
(***************************************************************************)
PriceNetError ==
    [raises |-> TRUE, status |-> 0, json |-> FALSE, shape |-> "other", price |-> Null]
PriceHttpError ==
    [raises |-> FALSE, status |-> 429, json |-> TRUE, shape |-> "other", price |-> Null]
PriceBadJson ==
    [raises |-> FALSE, status |-> 200, json |-> FALSE, shape |-> "other", price |-> Null]
PriceOk(shape, price) ==
    [raises |-> FALSE, status |-> 200, json |-> TRUE, shape |-> shape, price |-> price]

\* line 82: fallback_price = 1825.00
FALLBACK_ETH_PRICE == 1825

\* a variant that gives up with None when every source failed
FallbackNone == Null

\* lines 80-84
FallbackPrice == Num(FALLBACK_ETH_PRICE)

\* lines 60-75, the body of the try of one loop iteration
PriceBody(resp) ==
    IF resp.raises THEN Raised
    ELSE IF resp.status = 200
    THEN IF ~resp.json THEN Raised
         ELSE IF resp.shape = "ethereum" THEN Returned(resp.price)
         ELSE IF resp.shape = "ethereum_no_usd" THEN Raised
         ELSE IF resp.shape = "USD" THEN Returned(resp.price)
         ELSE FellThrough
    ELSE FellThrough

\* a variant without the try/except of lines 59 and 76-78
PriceUnguarded(resp) == PriceBody(resp)

\* except Exception: continue
PriceAttempt(resp) == TryExceptContinue(PriceBody(resp))

RECURSIVE PriceLoop(_, _)
\* lines 58-78: the loop over the sources; tried counts the requests made
PriceLoop(apis, tried) ==
    IF apis = <<>>
    THEN [raised |-> FALSE, value |-> FallbackPrice, tried |-> tried, fallback |-> TRUE]
    ELSE LET r == PriceAttempt(Head(apis)) IN
         IF r.raised
         THEN [raised |-> TRUE, value |-> Null, tried |-> tried + 1, fallback |-> FALSE]
         ELSE IF r.returned
         THEN [raised |-> FALSE, value |-> r.value, tried |-> tried + 1,
               fallback |-> FALSE]
         ELSE PriceLoop(Tail(apis), tried + 1)

get_eth_price(apis) == PriceLoop(apis, 0)

(***************************************************************************)
(* Decimal digits: int(token_id) and str(int_token_id), lines 435-436, and *)
(* the pattern #(\d+) of line 445.                                         *)
(***************************************************************************)
Digits == <<"0", "1", "2", "3", "4", "5", "6", "7", "8", "9">>

IsDigit(c) == \E d \in DOMAIN Digits : Digits[d] = c

DigitVal(c) == (CHOOSE d \in DOMAIN Digits : Digits[d] = c) - 1

\* the characters after an optional sign
Unsigned(chars) ==
    IF chars # <<>> /\ Head(chars) \in {"+", "-"} THEN Tail(chars) ELSE chars

RECURSIVE StripLeft(_)
StripLeft(chars) ==
    IF chars # <<>> /\ Head(chars) = " " THEN StripLeft(Tail(chars)) ELSE chars

RECURSIVE StripRight(_)
StripRight(chars) ==
    IF chars # <<>> /\ chars[Len(chars)] = " "
    THEN StripRight(SubSeq(chars, 1, Len(chars) - 1))
    ELSE chars

\* int(s) ignores the blanks around s
Strip(chars) == StripRight(StripLeft(chars))

\* int(s) accepts s: blanks, an optional sign and at least one digit
IsIntLiteral(chars) ==
    /\ Unsigned(Strip(chars)) # <<>>
    /\ \A i \in DOMAIN Unsigned(Strip(chars)) : IsDigit(Unsigned(Strip(chars))[i])

RECURSIVE DigitsValue(_, _)
DigitsValue(chars, acc) ==
    IF chars = <<>> THEN acc
    ELSE DigitsValue(Tail(chars), acc * 10 + DigitVal(Head(chars)))

\* int(s)
ParseInt(chars) ==
    IF Strip(chars) # <<>> /\ Head(Strip(chars)) = "-"
    THEN 0 - DigitsValue(Unsigned(Strip(chars)), 0)
    ELSE DigitsValue(Unsigned(Strip(chars)), 0)

RECURSIVE NatToChars(_)
NatToChars(n) ==
    IF n < 10 THEN <<Digits[n + 1]>>
    ELSE NatToChars(n \div 10) \o <<Digits[(n % 10) + 1]>>

\* str(n)
IntToChars(n) == IF n < 0 THEN <<"-">> \o NatToChars(0 - n) ELSE NatToChars(n)

\* the positions where #(\d+) matches
HashDigitAt(name) ==
    {i \in DOMAIN name : name[i] = "#" /\ i < Len(name) /\ IsDigit(name[i + 1])}

RECURSIVE DigitRun(_, _)
\* the longest run of digits of name from position i on
DigitRun(name, i) ==
    IF i > Len(name) \/ ~IsDigit(name[i]) THEN <<>>
    ELSE <<name[i]>> \o DigitRun(name, i + 1)

\* re.search(r'#(\d+)', token_name).group(1) at the leftmost match
HashNumber(name) ==
    LET first == CHOOSE i \in HashDigitAt(name) :
                     \A j \in HashDigitAt(name) : i <= j
    IN  DigitRun(name, first + 1)

\* line 455: f"{token_id[:4]}...{token_id[-4:]}" if len(token_id) > 8
Shortened(chars) ==
    IF Len(chars) > 8
    THEN SubSeq(chars, 1, 4) \o <<".", ".", ".">>
         \o SubSeq(chars, Len(chars) - 3, Len(chars))
    ELSE chars

\* line 440: the length above which the name or a shortened id is shown
LongIdOver == 10

\* line 440: len(str(token_id)) > 10
IsLongId(chars) == Len(chars) > LongIdOver

\* lines 429-459: the display id, a JSON value (raised: an exception the
\* inner handlers do not catch)
DisplayId(token_id, token_name) ==
    IF ~Truthy(token_id) THEN Returned(token_id)
    ELSE IF token_id.kind = "num" THEN Returned(Str(IntToChars(token_id.num)))
    ELSE IF IsIntLiteral(token_id.val)
    THEN Returned(Str(IntToChars(ParseInt(token_id.val))))
    ELSE IF IsLongId(token_id.val)
    THEN IF Truthy(token_name)
         THEN IF token_name.kind # "str" THEN Raised
              ELSE IF HashDigitAt(token_name.val) # {}
              THEN Returned(Str(HashNumber(token_name.val)))
              ELSE Returned(token_name)
         ELSE Returned(Str(Shortened(token_id.val)))
    ELSE Returned(token_id)

(***************************************************************************)
(* format_sale_message, lines 405-488: None or the message.                *)
(*   display_id  the id after the #                                        *)
(*   action      the action phrase                                         *)
(*   usd         the text in the brackets: the placeholder $??? or the     *)
(*               amount at the rate used                                   *)
(***************************************************************************)
NoUsd == [placeholder |-> FALSE, rate |-> 0]

NoMessage == [text |-> "none", display_id |-> Null, action |-> "", usd |-> NoUsd]

\* lines 467-471
UsdFormatted(eth_price) ==
    IF Truthy(eth_price)
    THEN [placeholder |-> FALSE, rate |-> eth_price.num]
    ELSE [placeholder |-> TRUE, rate |-> 0]

\* lines 413-483, the body of the try
FormatBody(sale, apis) ==
    IF TokenLookupRaises(sale) THEN Raised
    ELSE IF ContractCheckRaises(sale.contract) THEN Raised
    ELSE IF IsOtherContract(sale.contract) THEN Returned(NoMessage)
    ELSE LET display_id == DisplayId(sale.tokenId, sale.name) IN
         IF display_id.raised THEN Raised
         ELSE IF sale.price = "null" THEN Raised
         ELSE LET eth_price == get_eth_price(apis) IN
              IF eth_price.raised THEN Raised
              ELSE Returned([text |-> "message",
                             display_id |-> display_id.value,
                             action |-> IF sale.orderSide = "bid"
                                        THEN "offer accepted for"
                                        ELSE "bought for",
                             usd |-> UsdFormatted(eth_price.value)])

\* except Exception: return None
format_sale_message(sale, apis) ==
    LET body == FormatBody(sale, apis) IN
    IF body.raised THEN NoMessage ELSE body.value

\* what the price sources may answer while the poll loop formats a sale
PollPrices ==
    {<<PriceNetError, PriceHttpError>>,
     <<PriceOk("ethereum", Num(2000)), PriceNetError>>}

(***************************************************************************)
(* download_nft_image, lines 279-358.  A metadata host answers like an     *)
(* endpoint; entry says what its JSON body holds: no token entry, an entry *)
(* whose "token" is null, an entry without an image URL, or an image URL.  *)
(* An image host answers with a status, and writing the file may fail.     *)
(* The result carries the requests made, in order.                         *)
(***************************************************************************)
MetaNetError == [raises |-> TRUE, status |-> 0, json |-> FALSE, entry |-> "no_entry"]
MetaHttpError == [raises |-> FALSE, status |-> 500, json |-> TRUE, entry |-> "no_entry"]
MetaBadJson == [raises |-> FALSE, status |-> 200, json |-> FALSE, entry |-> "no_entry"]
MetaOk(entry) == [raises |-> FALSE, status |-> 200, json |-> TRUE, entry |-> entry]

ImgNetError == [raises |-> TRUE, status |-> 0, write |-> FALSE]
ImgHttpError == [raises |-> FALSE, status |-> 404, write |-> FALSE]
ImgOk(write) == [raises |-> FALSE, status |-> 200, write |-> write]

ImgRaised(requests) ==
    [raised |-> TRUE, returned |-> FALSE, value |-> "none", requests |-> requests]
ImgReturned(value, requests) ==
    [raised |-> FALSE, returned |-> TRUE, value |-> value, requests |-> requests]
ImgFellThrough(requests) ==
    [raised |-> FALSE, returned |-> FALSE, value |-> "none", requests |-> requests]

\* lines 311-319 and 343-349: fetch the image and write it to the file
ImageDownload(resp, before, name) ==
    IF resp.raises THEN ImgRaised(before \o <<name>>)
    ELSE IF resp.status = 200
    THEN IF resp.write THEN ImgReturned("path", before \o <<name>>)
         ELSE ImgRaised(before \o <<name>>)
    ELSE ImgFellThrough(before \o <<name>>)

\* lines 296-325: the token metadata lookup and the download it leads to
PrimaryBody(w) ==
    IF w.primary.raises THEN ImgRaised(<<"tokens">>)
    ELSE IF w.primary.status = 200
    THEN IF ~w.primary.json THEN ImgRaised(<<"tokens">>)
         ELSE IF w.primary.entry = "no_entry" THEN ImgFellThrough(<<"tokens">>)
         ELSE IF w.primary.entry = "null_token" THEN ImgRaised(<<"tokens">>)
         ELSE IF w.primary.entry = "no_image" THEN ImgFellThrough(<<"tokens">>)
         ELSE ImageDownload(w.download, <<"tokens">>, "download")
    ELSE ImgFellThrough(<<"tokens">>)

\* lines 329-349, the body of the inner try
OpenSeaBody(w) ==
    IF w.secondary.raises THEN ImgRaised(<<"opensea">>)
    ELSE IF w.secondary.status = 200
    THEN IF ~w.secondary.json THEN ImgRaised(<<"opensea">>)
         ELSE IF w.secondary.entry = "null_token" THEN ImgRaised(<<"opensea">>)
         ELSE IF w.secondary.entry = "image"
         THEN ImageDownload(w.download2, <<"opensea">>, "download2")
         ELSE ImgFellThrough(<<"opensea">>)
    ELSE ImgFellThrough(<<"opensea">>)

\* lines 328-351: try: ... except Exception as opensea_error: print(...)
OpenSeaFallback(w) ==
    LET body == OpenSeaBody(w) IN
    IF body.raised THEN ImgFellThrough(body.requests) ELSE body

\* lines 296-353, the body of the outer try
ImageBody(w) ==
    LET primary == PrimaryBody(w) IN
    IF primary.raised \/ primary.returned THEN primary
    ELSE LET fallback == OpenSeaFallback(w) IN
         ImgReturned(fallback.value, primary.requests \o fallback.requests)

\* a variant without the outer try/except of lines 295 and 354-358
ImageUnguarded(w) == ImageBody(w)

\* lines 295-358: except Exception as e: ... return None
download_nft_image(w) ==
    LET body == ImageBody(w) IN
    IF body.raised THEN ImgReturned("none", body.requests) ELSE body

MetaAnswers ==
    {MetaNetError, MetaHttpError, MetaBadJson, MetaOk("no_entry"),
     MetaOk("null_token"), MetaOk("no_image"), MetaOk("image")}

ImgAnswers == {ImgNetError, ImgHttpError, ImgOk(FALSE), ImgOk(TRUE)}

ImageWorlds ==
    [primary : MetaAnswers, download : ImgAnswers,
     secondary : MetaAnswers, download2 : ImgAnswers]

ImageWorld(primary, download, secondary, download2) ==
    [primary |-> primary, download |-> download,
     secondary |-> secondary, download2 |-> download2]

\* what the hosts may answer while the poll loop resolves an image
PollImages ==
    {ImageWorld(MetaOk("image"), ImgOk(TRUE), MetaNetError, ImgNetError),
     ImageWorld(MetaNetError, ImgNetError, MetaOk("image"), ImgOk(TRUE)),
     ImageWorld(MetaHttpError, ImgNetError, MetaOk("image"), ImgOk(TRUE)),
     ImageWorld(MetaOk("image"), ImgOk(FALSE), MetaHttpError, ImgNetError)}

(***************************************************************************)
(* post_to_twitter, lines 360-403.  What the Twitter client does in one    *)
(* call: client and auth (building tweepy.Client, and OAuth1UserHandler    *)
(* with tweepy.API), upload, create_media and create_text (the three       *)
(* requests) succeed or raise; exists is os.path.exists(image_path) and    *)
(* has_id says that response.data holds an id.  The result carries the     *)
(* requests made, in order, and whether a create_tweet call returned.      *)
(***************************************************************************)
PostOutcome(raised, value, calls, created) ==
    [raised |-> raised, value |-> value, calls |-> calls, created |-> created]

\* lines 385-387, the body of the inner try
MediaBody(w) ==
    IF ~w.upload THEN PostOutcome(TRUE, FALSE, <<"upload">>, FALSE)
    ELSE IF ~w.create_media
    THEN PostOutcome(TRUE, FALSE, <<"upload", "create_media">>, FALSE)
    ELSE PostOutcome(FALSE, FALSE, <<"upload", "create_media">>, TRUE)

\* lines 391 and 394: client.create_tweet(text=message)
TextOnly(w, before) ==
    IF w.create_text
    THEN PostOutcome(FALSE, FALSE, before \o <<"create_text">>, TRUE)
    ELSE PostOutcome(TRUE, FALSE, before \o <<"create_text">>, FALSE)

\* a variant without the handler of lines 388-391
WithMediaNoRetry(w) == MediaBody(w)

\* lines 383-391: except Exception as media_error: ... create_tweet(text=message)
WithMedia(w) ==
    LET media == MediaBody(w) IN
    IF media.raised THEN TextOnly(w, media.calls) ELSE media

\* lines 364-398, the body of the outer try
PostBody(image_path, w) ==
    IF ~w.client THEN PostOutcome(TRUE, FALSE, <<>>, FALSE)
    ELSE LET response ==
                 IF image_path = "path" /\ w.exists
                 THEN IF ~w.auth THEN PostOutcome(TRUE, FALSE, <<>>, FALSE)
                      ELSE WithMedia(w)
                 ELSE TextOnly(w, <<>>)
         IN  IF response.raised THEN response
             ELSE IF ~w.has_id
             THEN PostOutcome(TRUE, FALSE, response.calls, response.created)
             ELSE PostOutcome(FALSE, TRUE, response.calls, response.created)

\* lines 362-403: except Exception as e: ... return False
post_to_twitter(image_path, w) ==
    LET body == PostBody(image_path, w) IN
    IF body.raised THEN PostOutcome(FALSE, FALSE, body.calls, body.created)
    ELSE body

PostWorlds ==
    [client : BOOLEAN, exists : BOOLEAN, auth : BOOLEAN, upload : BOOLEAN,
     create_media : BOOLEAN, create_text : BOOLEAN, has_id : BOOLEAN]

NoPostInput ==
    [image_path |-> "none",
     world |-> [client |-> FALSE, exists |-> FALSE, auth |-> FALSE,
                upload |-> FALSE, create_media |-> FALSE, create_text |-> FALSE,
                has_id |-> FALSE]]

NoPost ==
    [called |-> FALSE, raised |-> FALSE, value |-> FALSE, calls |-> <<>>,
     created |-> FALSE]

(***************************************************************************)
(* What the poll loop's upstream may answer in one cycle.                  *)
(***************************************************************************)
PollSales ==
    {SaleA, SaleB, SaleNoHash, SaleOther, SaleNullToken, SaleNumContract,
     SaleNullPrice}

PollUpstreams ==
    [sales : {NetError, HttpError} \cup {Ok(l) : l \in SeqsUpTo(PollSales, MaxBatch)},
     activity : {HttpError} \cup {Ok(l) : l \in SeqsUpTo({ActSale1, ActSale2}, MaxBatch)},
     fills : {HttpError, Ok(<<FillMatch>>)}]

InitialStores == {<<>>, <<"0xh1">>}

NoIteration ==
    [outcome |-> "none", calls |-> <<>>, image |-> "none", post |-> "none"]

NoFetch ==
    [called |-> FALSE, raised |-> FALSE, result |-> <<>>, requests |-> <<>>,
     params |-> <<>>]

NoUpstream == [sales |-> NetError, activity |-> NetError, fills |-> NetError]

NoPrice == [called |-> FALSE, raised |-> FALSE, value |-> Null, tried |-> 0,
            fallback |-> FALSE]

NoFormat == [called |-> FALSE, message |-> NoMessage, price |-> NoPrice]

NoSale ==
    Sale("", NoOrderHash, "ask", "missing", Missing, Missing, Missing, "dict", "none")

NoFormatInput == [sale |-> NoSale, apis |-> <<>>]

NoImage == [called |-> FALSE, raised |-> FALSE, value |-> "none", requests |-> <<>>]

NoImageInput == ImageWorld(MetaNetError, ImgNetError, MetaNetError, ImgNetError)

NoTest == [returned |-> "none", lookbacks |-> <<>>, posted |-> <<>>, store |-> <<>>]

\* the variables a specification does not use stay at these values
CallIdle ==
    /\ fmt_in = NoFormatInput
    /\ fmt_out = NoFormat
    /\ img_in = NoImageInput
    /\ img_out = NoImage
    /\ post_in = NoPostInput
    /\ post_out = NoPost

FetchIdle ==
    /\ upstream = NoUpstream
    /\ include_bids = TRUE
    /\ max_age_days = 7
    /\ fetch_out = NoFetch

TestIdle ==
    /\ attempt = 0
    /\ test_out = NoTest

Cycle(f, posts) == [file |-> f, posts |-> posts]

Init ==
    /\ mainState = "IDLE"
    /\ pc = "none"
    /\ sleep_s = 0
    /\ file \in {[ok |-> TRUE, ids |-> ids] : ids \in InitialStores}
    /\ processed_sales = <<>>
    /\ recent_sales = <<>>
    /\ idx = 0
    /\ sales_processed = 0
    /\ last = NoIteration
    /\ published = {}
    /\ retryDue = {}
    /\ cycle = Cycle(file, 0)
    /\ FetchIdle
    /\ CallIdle
    /\ TestIdle

(***************************************************************************)
(* main, lines 625-637, and process_new_sales, lines 490-546.              *)
(***************************************************************************)
\* lines 625-628: the loop calls process_new_sales
BeginCheck ==
    /\ mainState = "IDLE"
    /\ mainState' = "CHECKING"
    /\ pc' = "load"
    /\ last' = NoIteration
    /\ cycle' = Cycle(file, 0)
    /\ UNCHANGED <<sleep_s, file, processed_sales, recent_sales, idx,
                   sales_processed, published, retryDue>>
    /\ UNCHANGED <<fetchVars, callVars, testVars>>

\* an exception leaves process_new_sales and main, which catch nothing
Crash ==
    /\ mainState' = "CRASHED"
    /\ pc' = "raised"

\* lines 497-507: load the ids, discover, return 0 on an empty batch
LoadAndFetch ==
    /\ mainState = "CHECKING"
    /\ pc = "load"
    /\ \E readOK \in BOOLEAN :
         IF readOK /\ file.ok
         THEN \E up \in PollUpstreams :
                LET fetched == FetchRecentSales(TRUE, 7, up) IN
                IF fetched.raised
                THEN /\ Crash
                     /\ processed_sales' = load_processed_sales(file)
                     /\ UNCHANGED <<recent_sales, idx>>
                ELSE /\ processed_sales' = load_processed_sales(file)
                     /\ recent_sales' = fetched.result
                     /\ idx' = IF fetched.result = <<>> THEN 0 ELSE 1
                     /\ pc' = IF fetched.result = <<>> THEN "done" ELSE "loop"
                     /\ UNCHANGED mainState
         ELSE /\ Crash
              /\ UNCHANGED <<processed_sales, recent_sales, idx>>
    /\ sales_processed' = 0
    /\ UNCHANGED <<sleep_s, file, last, published, retryDue, cycle>>
    /\ UNCHANGED <<fetchVars, callVars, testVars>>

\* the for loop moves on to the next sale, or ends (lines 545-546)
NextSale ==
    /\ idx' = idx + 1
    /\ pc' = IF idx + 1 > Len(recent_sales) THEN "done" ELSE "loop"
    /\ UNCHANGED mainState

Iteration(outcome, calls, image, post) ==
    [outcome |-> outcome, calls |-> calls, image |-> image, post |-> post]

\* post_to_twitter's return value, for the record of the iteration
PostResult(success) == IF success THEN "true" ELSE "false"

\* a variant that marks the sale whatever post_to_twitter returned
ShouldMarkAlways(success) == TRUE

\* line 538: if success:
ShouldMark(success) == success

\* lines 508-543: one iteration of the for loop
ProcessSale ==
    /\ mainState = "CHECKING"
    /\ pc = "loop"
    /\ idx <= Len(recent_sales)
    /\ LET sale == recent_sales[idx]
           sale_id == SaleId(sale)
       IN
       IF AlreadyProcessed(sale_id, processed_sales)
       THEN /\ NextSale
            /\ last' = Iteration("duplicate", <<>>, "none", "none")
            /\ UNCHANGED <<file, processed_sales, sales_processed, published,
                           retryDue, cycle>>
       ELSE IF TokenLookupRaises(sale) \/ ContractCheckRaises(sale.contract)
       THEN /\ Crash
            /\ last' = Iteration("raised", <<>>, "none", "none")
            /\ UNCHANGED <<idx, file, processed_sales, sales_processed,
                           published, retryDue, cycle>>
       ELSE IF IsOtherContract(sale.contract)
       THEN /\ NextSale
            /\ last' = Iteration("other_contract", <<>>, "none", "none")
            /\ UNCHANGED <<file, processed_sales, sales_processed, published,
                           retryDue, cycle>>
       ELSE \E apis \in PollPrices :
         LET message == format_sale_message(sale, apis) IN
         IF message = NoMessage
         THEN /\ NextSale
              /\ last' = Iteration("no_message", <<"format">>, "none", "none")
              /\ UNCHANGED <<file, processed_sales, sales_processed, published,
                             retryDue, cycle>>
         ELSE \E w \in PollImages :
           LET image == download_nft_image(w) IN
           IF image.raised
           THEN /\ Crash
                /\ last' = Iteration("raised", <<"format", "image">>, "none", "none")
                /\ UNCHANGED <<idx, file, processed_sales, sales_processed,
                               published, retryDue, cycle>>
           ELSE \E success \in BOOLEAN :
              /\ published' = IF success THEN published \cup {sale_id}
                              ELSE published
              /\ retryDue' = IF success THEN retryDue \ {sale} ELSE {sale}
              /\ cycle' = IF success THEN Cycle(cycle.file, cycle.posts + 1)
                          ELSE cycle
              /\ IF ShouldMark(success)
                 THEN /\ processed_sales' = MarkProcessed(processed_sales, sale_id)
                      /\ \E writeOK \in BOOLEAN :
                           IF writeOK
                           THEN /\ file' = save_processed_sales(processed_sales')
                                /\ sales_processed' = sales_processed + 1
                                /\ NextSale
                                /\ last' = Iteration(
                                     IF success THEN "posted" ELSE "post_failed",
                                     <<"format", "image", "post", "append", "save">>,
                                     image.value, PostResult(success))
                           ELSE /\ file' \in {file, TruncatedFile}
                                /\ Crash
                                /\ last' = Iteration("raised",
                                     <<"format", "image", "post", "append", "save">>,
                                     image.value, PostResult(success))
                                /\ UNCHANGED <<idx, sales_processed>>
                 ELSE /\ NextSale
                      /\ last' = Iteration(
                           IF success THEN "posted" ELSE "post_failed",
                           <<"format", "image", "post">>, image.value,
                           PostResult(success))
                      /\ UNCHANGED <<file, processed_sales, sales_processed>>
    /\ UNCHANGED <<sleep_s, recent_sales>>
    /\ UNCHANGED <<fetchVars, callVars, testVars>>

\* lines 631-637: process_new_sales returned sales_found; main sleeps
Sleep ==
    /\ mainState = "CHECKING"
    /\ pc = "done"
    /\ mainState' = IF sales_processed > 0 THEN "COOLDOWN" ELSE "WAITING"
    /\ sleep_s' = IF sales_processed > 0 THEN CHECK_INTERVAL
                  ELSE REGULAR_CHECK_INTERVAL
    /\ pc' = "none"
    /\ processed_sales' = <<>>
    /\ recent_sales' = <<>>
    /\ idx' = 0
    /\ UNCHANGED <<file, sales_processed, last, published, retryDue, cycle>>
    /\ UNCHANGED <<fetchVars, callVars, testVars>>

\* time.sleep returns and the loop starts over
WakeUp ==
    /\ mainState \in {"COOLDOWN", "WAITING"}
    /\ mainState' = "IDLE"
    /\ sleep_s' = 0
    /\ sales_processed' = 0
    /\ UNCHANGED <<pc, file, processed_sales, recent_sales, idx, last,
                   published, retryDue, cycle>>
    /\ UNCHANGED <<fetchVars, callVars, testVars>>

Next == BeginCheck \/ LoadAndFetch \/ ProcessSale \/ Sleep \/ WakeUp

Spec == Init /\ [][Next]_vars

(***************************************************************************)
(* One call of fetch_recent_sales on its own, over every combination of    *)
(* endpoint answers within the bounds.                                     *)
(***************************************************************************)
FetchUpstreams ==
    [sales : Responses({SaleA}, MaxResp),
     activity : Responses({ActSale1, ActTransfer, ActNullToken}, MaxResp),
     fills : Responses({FillMatch, FillMixedCase, FillOther, FillNoTime,
                        FillBadTime}, MaxResp)]

\* line 557
time_periods == <<365, 730, 1095>>

\* the default of line 86 and the values of line 557
Lookbacks == {7} \cup {time_periods[i] : i \in DOMAIN time_periods}

FetchInit ==
    /\ mainState = "IDLE"
    /\ pc = "none"
    /\ sleep_s = 0
    /\ file = [ok |-> TRUE, ids |-> <<>>]
    /\ processed_sales = <<>>
    /\ recent_sales = <<>>
    /\ idx = 0
    /\ sales_processed = 0
    /\ last = NoIteration
    /\ published = {}
    /\ retryDue = {}
    /\ cycle = Cycle(file, 0)
    /\ CallIdle
    /\ TestIdle
    /\ upstream \in FetchUpstreams
    /\ include_bids \in BOOLEAN
    /\ max_age_days \in Lookbacks
    /\ fetch_out = NoFetch

\* fetch_recent_sales(include_bids, max_age_days), lines 86-242
FetchCall ==
    /\ ~fetch_out.called
    /\ LET r == FetchRecentSales(include_bids, max_age_days, upstream) IN
       fetch_out' = [called |-> TRUE, raised |-> r.raised,
                     result |-> r.result, requests |-> r.requests,
                     params |-> RequestTimeParams(max_age_days)]
    /\ UNCHANGED <<upstream, include_bids, max_age_days>>
    /\ UNCHANGED <<pollVars, callVars, testVars>>

FetchNext == FetchCall

FetchSpec == FetchInit /\ [][FetchNext]_vars

(***************************************************************************)
(* One call of get_eth_price and one of format_sale_message on their own,  *)
(* over token ids, token names, contracts and price source answers.        *)
(***************************************************************************)
FormatTokenIds ==
    {Missing, Null, Num(7),
     Str(<<"0", "0", "4", "2">>),
     Str(<<" ", "7">>),
     Str(<<"a", "b", "c">>),
     Str(<<"a", "b", "c", "d", "e", "f", "g", "h", "i">>),
     Str(<<"a", "b", "c", "d", "e", "f", "g", "h", "i", "j", "k">>),
     Str(<<"0", "x", "1", "2", "3", "4", "5", "6", "7", "8", "9", "a">>)}

FormatNames ==
    {Missing, Null, Num(5),
     Str(<<"P", " ", "#", "7">>),
     Str(<<"F", "o", "o">>),
     Str(<<"a", "#", "x", " ", "#", "1", "2", "b">>)}

FormatSales ==
    {Sale("s", "0xh", "ask", "dict", Str(CONTRACT_ADDRESS), t, n, "dict", "none") :
        t \in FormatTokenIds, n \in FormatNames}
    \cup {Sale("s", "0xh", "bid", "dict", Str(ContractMixedCase), t, Missing, "dict",
                "none") : t \in FormatTokenIds}
    \cup {SaleOther, SaleNullToken, SaleNumContract, SaleNullPrice}

PriceAnswers ==
    {PriceNetError, PriceHttpError, PriceBadJson,
     PriceOk("ethereum", Num(2000)), PriceOk("ethereum", Null),
     PriceOk("ethereum_no_usd", Null),
     PriceOk("USD", Num(1900)), PriceOk("USD", Num(0)),
     PriceOk("other", Num(5))}

\* line 53: apis, the two price sources in their order
FormatPrices == {<<first, second>> : first \in PriceAnswers, second \in PriceAnswers}

FormatInit ==
    /\ mainState = "IDLE"
    /\ pc = "none"
    /\ sleep_s = 0
    /\ file = [ok |-> TRUE, ids |-> <<>>]
    /\ processed_sales = <<>>
    /\ recent_sales = <<>>
    /\ idx = 0
    /\ sales_processed = 0
    /\ last = NoIteration
    /\ published = {}
    /\ retryDue = {}
    /\ cycle = Cycle(file, 0)
    /\ FetchIdle
    /\ TestIdle
    /\ fmt_in \in [sale : FormatSales, apis : FormatPrices]
    /\ fmt_out = NoFormat
    /\ img_in = NoImageInput
    /\ img_out = NoImage
    /\ post_in = NoPostInput
    /\ post_out = NoPost

\* get_eth_price(), lines 50-84
PriceCall ==
    /\ ~fmt_out.price.called
    /\ LET r == get_eth_price(fmt_in.apis) IN
       fmt_out' = [fmt_out EXCEPT !.price =
                     [called |-> TRUE, raised |-> r.raised, value |-> r.value,
                      tried |-> r.tried, fallback |-> r.fallback]]
    /\ UNCHANGED <<fmt_in, img_in, img_out, post_in, post_out>>
    /\ UNCHANGED <<pollVars, fetchVars, testVars>>

\* format_sale_message(sale), lines 405-488
FormatCall ==
    /\ ~fmt_out.called
    /\ fmt_out' = [fmt_out EXCEPT !.called = TRUE,
                     !.message = format_sale_message(fmt_in.sale, fmt_in.apis)]
    /\ UNCHANGED <<fmt_in, img_in, img_out, post_in, post_out>>
    /\ UNCHANGED <<pollVars, fetchVars, testVars>>

FormatNext == PriceCall \/ FormatCall

FormatSpec == FormatInit /\ [][FormatNext]_vars

(***************************************************************************)
(* One call of download_nft_image on its own, over every combination of    *)
(* answers of the two metadata hosts and the two image hosts.              *)
(***************************************************************************)
ImageInit ==
    /\ mainState = "IDLE"
    /\ pc = "none"
    /\ sleep_s = 0
    /\ file = [ok |-> TRUE, ids |-> <<>>]
    /\ processed_sales = <<>>
    /\ recent_sales = <<>>
    /\ idx = 0
    /\ sales_processed = 0
    /\ last = NoIteration
    /\ published = {}
    /\ retryDue = {}
    /\ cycle = Cycle(file, 0)
    /\ FetchIdle
    /\ TestIdle
    /\ fmt_in = NoFormatInput
    /\ fmt_out = NoFormat
    /\ img_in \in ImageWorlds
    /\ img_out = NoImage
    /\ post_in = NoPostInput
    /\ post_out = NoPost

\* download_nft_image(token_id, contract_address), lines 279-358
ImageCall ==
    /\ ~img_out.called
    /\ LET r == download_nft_image(img_in) IN
       img_out' = [called |-> TRUE, raised |-> r.raised, value |-> r.value,
                   requests |-> r.requests]
    /\ UNCHANGED <<fmt_in, fmt_out, img_in, post_in, post_out>>
    /\ UNCHANGED <<pollVars, fetchVars, testVars>>

ImageNext == ImageCall

ImageSpec == ImageInit /\ [][ImageNext]_vars

(***************************************************************************)
(* test_post_last_sale, lines 548-617: the process started with the        *)
(* argument "test".  pc is "while" at line 559, "for" at line 571,         *)
(* "returned" after a return and "raised" after an exception.              *)
(***************************************************************************)
\* line 553
max_attempts == 3

TestSales == {SaleA, SaleB, SaleOther, SaleNullPrice, SaleNullToken}

TestUpstreams ==
    [sales : {NetError, HttpError} \cup {Ok(l) : l \in SeqsUpTo(TestSales, MaxBatch)},
     activity : {HttpError, Ok(<<ActSale1>>)},
     fills : {HttpError}]

TestInit ==
    /\ mainState = "TEST"
    /\ pc = "while"
    /\ sleep_s = 0
    /\ file \in {[ok |-> TRUE, ids |-> ids] : ids \in InitialStores}
    /\ processed_sales = <<>>
    /\ recent_sales = <<>>
    /\ idx = 0
    /\ sales_processed = 0
    /\ last = NoIteration
    /\ published = {}
    /\ retryDue = {}
    /\ cycle = Cycle(file, 0)
    /\ FetchIdle
    /\ CallIdle
    /\ attempt = 0
    /\ test_out = [NoTest EXCEPT !.store = file.ids]

\* lines 559-567 and 608-614: one turn of the while loop
TestAttempt ==
    /\ mainState = "TEST"
    /\ pc = "while"
    /\ attempt < max_attempts
    /\ attempt' = attempt + 1
    /\ LET days == time_periods[attempt + 1] IN
       /\ test_out' = [test_out EXCEPT !.lookbacks = Append(@, days)]
       /\ \E up \in TestUpstreams :
            LET fetched == FetchRecentSales(TRUE, days, up) IN
            IF fetched.raised
            THEN /\ pc' = "raised"
                 /\ UNCHANGED <<recent_sales, idx>>
            ELSE IF fetched.result # <<>>
            THEN /\ recent_sales' = fetched.result
                 /\ idx' = 1
                 /\ pc' = "for"
            ELSE /\ pc' = "while"
                 /\ UNCHANGED <<recent_sales, idx>>
    /\ UNCHANGED <<mainState, sleep_s, file, processed_sales, sales_processed,
                   last, published, retryDue, cycle>>
    /\ UNCHANGED <<fetchVars, callVars>>

\* lines 616-617: the while loop ended without a batch
TestGiveUp ==
    /\ mainState = "TEST"
    /\ pc = "while"
    /\ attempt >= max_attempts
    /\ pc' = "returned"
    /\ test_out' = [test_out EXCEPT !.returned = "false"]
    /\ UNCHANGED <<mainState, sleep_s, file, processed_sales, recent_sales, idx,
                   sales_processed, last, published, retryDue, cycle, attempt>>
    /\ UNCHANGED <<fetchVars, callVars>>

\* a variant that goes on with the next sale after a successful post
ReturnsNever(success) == FALSE

\* lines 596-602: if success: ... return True
ReturnsOnSuccess(success) == success

\* a variant that appends the posted id to the file as the poll loop does
TestStoreMarked(f, sale_id) == save_processed_sales(Append(f.ids, sale_id))

\* lines 596-602: the file after a successful post
TestStoreAfterPost(f, sale_id) == f

\* lines 571-604: one iteration of the for loop
TestSale ==
    /\ mainState = "TEST"
    /\ pc = "for"
    /\ idx <= Len(recent_sales)
    /\ LET sale == recent_sales[idx] IN
       IF TokenLookupRaises(sale) \/ ContractCheckRaises(sale.contract)
       THEN /\ pc' = "raised"
            /\ last' = Iteration("raised", <<>>, "none", "none")
            /\ test_out' = [test_out EXCEPT !.returned = "raised"]
            /\ UNCHANGED <<idx, file>>
       ELSE IF IsOtherContract(sale.contract)
       THEN /\ idx' = idx + 1
            /\ last' = Iteration("other_contract", <<>>, "none", "none")
            /\ UNCHANGED <<pc, file, test_out>>
       ELSE \E apis \in PollPrices :
         LET message == format_sale_message(sale, apis) IN
         IF message = NoMessage
         THEN /\ idx' = idx + 1
              /\ last' = Iteration("no_message", <<"format">>, "none", "none")
              /\ UNCHANGED <<pc, file, test_out>>
         ELSE \E w \in PollImages :
           LET image == download_nft_image(w) IN
           IF image.raised
           THEN /\ pc' = "raised"
                /\ last' = Iteration("raised", <<"format", "image">>, "none", "none")
                /\ test_out' = [test_out EXCEPT !.returned = "raised"]
                /\ UNCHANGED <<idx, file>>
           ELSE \E success \in BOOLEAN :
              /\ last' = Iteration(IF success THEN "posted" ELSE "post_failed",
                                   <<"format", "image", "post">>, image.value,
                                   PostResult(success))
              /\ file' = IF success THEN TestStoreAfterPost(file, SaleId(sale))
                         ELSE file
              /\ IF ReturnsOnSuccess(success)
                 THEN /\ pc' = "returned"
                      /\ test_out' = [test_out EXCEPT !.returned = "true",
                                        !.posted = Append(@, SaleId(sale))]
                      /\ UNCHANGED idx
                 ELSE /\ idx' = idx + 1
                      /\ test_out' = [test_out EXCEPT !.posted =
                                        IF success THEN Append(@, SaleId(sale)) ELSE @]
                      /\ UNCHANGED pc
    /\ UNCHANGED <<mainState, sleep_s, processed_sales, recent_sales,
                   sales_processed, published, retryDue, cycle, attempt>>
    /\ UNCHANGED <<fetchVars, callVars>>

\* lines 606-607: every sale of the batch was tried
TestExhausted ==
    /\ mainState = "TEST"
    /\ pc = "for"
    /\ idx > Len(recent_sales)
    /\ pc' = "returned"
    /\ test_out' = [test_out EXCEPT !.returned = "false"]
    /\ UNCHANGED <<mainState, sleep_s, file, processed_sales, recent_sales, idx,
                   sales_processed, last, published, retryDue, cycle, attempt>>
    /\ UNCHANGED <<fetchVars, callVars>>

TestNext == TestAttempt \/ TestGiveUp \/ TestSale \/ TestExhausted

\* the statements of the function run one after the other until it returns
TestSpec == TestInit /\ [][TestNext]_vars /\ WF_vars(TestNext)

\* lines 639-644: the test process has ended; the program is started again
\* without the argument and runs main().  Only the file and what was
\* published outlive the process.
Relaunch ==
    /\ mainState = "TEST"
    /\ pc \in {"returned", "raised"}
    /\ mainState' = "IDLE"
    /\ pc' = "none"
    /\ recent_sales' = <<>>
    /\ idx' = 0
    /\ last' = NoIteration
    /\ attempt' = 0
    /\ test_out' = [test_out EXCEPT !.returned = "none", !.lookbacks = <<>>]
    /\ cycle' = Cycle(file, 0)
    /\ UNCHANGED <<sleep_s, file, processed_sales, sales_processed, published,
                   retryDue>>
    /\ UNCHANGED <<fetchVars, callVars>>

RelaunchNext == TestNext \/ Relaunch \/ Next

RelaunchSpec == TestInit /\ [][RelaunchNext]_vars

(***************************************************************************)
(* One call of post_to_twitter on its own, with and without an image path, *)
(* over everything the Twitter client may do.                              *)
(***************************************************************************)
PostInit ==
    /\ mainState = "IDLE"
    /\ pc = "none"
    /\ sleep_s = 0
    /\ file = [ok |-> TRUE, ids |-> <<>>]
    /\ processed_sales = <<>>
    /\ recent_sales = <<>>
    /\ idx = 0
    /\ sales_processed = 0
    /\ last = NoIteration
    /\ published = {}
    /\ retryDue = {}
    /\ cycle = Cycle(file, 0)
    /\ FetchIdle
    /\ TestIdle
    /\ fmt_in = NoFormatInput
    /\ fmt_out = NoFormat
    /\ img_in = NoImageInput
    /\ img_out = NoImage
    /\ post_in \in [image_path : {"path", "none"}, world : PostWorlds]
    /\ post_out = NoPost

\* post_to_twitter(message, image_path), lines 360-403
PostCall ==
    /\ ~post_out.called
    /\ LET r == post_to_twitter(post_in.image_path, post_in.world) IN
       post_out' = [called |-> TRUE, raised |-> r.raised, value |-> r.value,
                    calls |-> r.calls, created |-> r.created]
    /\ UNCHANGED <<fmt_in, fmt_out, img_in, img_out, post_in>>
    /\ UNCHANGED <<pollVars, fetchVars, testVars>>

PostNext == PostCall

PostSpec == PostInit /\ [][PostNext]_vars

(***************************************************************************)
(* Properties of the poll loop (specification Spec).                       *)
(***************************************************************************)
Range(q) == {q[i] : i \in DOMAIN q}

Count(q, x) == Cardinality({i \in DOMAIN q : q[i] = x})

\* the iteration recorded in last called post_to_twitter
PostCalled == "post" \in Range(last.calls)

\* the record the last iteration examined (idx has moved past it)
Examined == recent_sales[idx - 1]

AfterIteration == pc \in {"loop", "done"} /\ idx >= 2

\* C1: a record whose orderHash was appended to the Dedup Store after a
\* successful publish earlier in the life of the process (in an earlier
\* cycle or earlier in the same batch) is never passed to post_to_twitter.
C1_AtMostOncePerId ==
    [][(pc = "loop" /\ PostCalled')
         => SaleId(recent_sales[idx]) \notin published]_vars

\* C1 witness: the first record of a batch is skipped at the dedup check
\* because its id was published in an earlier cycle of this process.
C1_Witness ==
    /\ AfterIteration
    /\ idx = 2
    /\ last.outcome = "duplicate"
    /\ SaleId(recent_sales[1]) \in published
    /\ SaleId(recent_sales[1]) # ""

\* C2: a record with an empty or missing orderHash is never skipped at the
\* dedup check, whatever was published before.
C2_NoHashNeverDuplicate ==
    (AfterIteration /\ SaleId(Examined) = "") => last.outcome # "duplicate"

\* C3: an exception raised while one sale is processed is caught: no loop
\* iteration ends with the exception leaving process_new_sales and main.
C3_SaleErrorsCaught == ~(mainState = "CRASHED" /\ last.outcome = "raised")

\* C4: when format_sale_message returns None or post_to_twitter returns
\* False, the iteration leaves the in-memory list and the file unchanged,
\* calls format and post at most once each, and the loop moves on to the
\* next record of the batch (or ends after the last one).
C4_FailureLeavesStore ==
    [][(pc = "loop" /\ (last.outcome \in {"no_message", "post_failed"})')
         => /\ processed_sales' = processed_sales
            /\ file' = file
            /\ sales_processed' = sales_processed
            /\ idx' = idx + 1
            /\ mainState' = "CHECKING"
            /\ pc' = IF idx < Len(recent_sales) THEN "loop" ELSE "done"
            /\ Count(last'.calls, "format") = 1
            /\ Count(last'.calls, "post") <= 1]_vars

\* C4 witness: a publish failed, the record's id is not in the store and
\* the loop stands at the next record of the batch.
C4_Witness ==
    /\ AfterIteration
    /\ pc = "loop"
    /\ last.outcome = "post_failed"
    /\ ~AlreadyProcessed(SaleId(Examined), processed_sales)
    /\ file.ids = processed_sales

\* C5: a record whose publish failed is passed to post_to_twitter again
\* when the loop next examines it.
C5_FailedIsRetried ==
    [][(pc = "loop" /\ recent_sales[idx] \in retryDue) => PostCalled']_vars

\* C6: an iteration calls format, image, post in this order and appends and
\* saves only after post returned True; between two records the file holds
\* the in-memory list; every id in the file that was not there when the
\* process started was published successfully.
C6_PersistOnSuccessOnly ==
    /\ last.calls \in {<<>>, <<"format">>, <<"format", "image", "post">>,
                       <<"format", "image", "post", "append", "save">>}
    /\ ("append" \in Range(last.calls)) <=> (last.post = "true")
    /\ (pc \in {"loop", "done"}) => (file.ok /\ file.ids = processed_sales)
    /\ \E initial \in InitialStores :
         Range(file.ids) \subseteq Range(initial) \cup published

\* C6 witness: a record was published with its image and its id is the
\* last of the list, in memory and in the file.
C6_Witness ==
    /\ AfterIteration
    /\ last.outcome = "posted"
    /\ last.image = "path"
    /\ file.ids = processed_sales
    /\ processed_sales[Len(processed_sales)] = SaleId(Examined)

\* C7: main leaves CHECKING for COOLDOWN exactly when the cycle published
\* at least one sale, and for WAITING otherwise.
C7_CheckingThenSleep ==
    [][(mainState = "CHECKING" /\ mainState' # "CHECKING")
         => mainState' = IF sales_processed' > 0 THEN "COOLDOWN"
                         ELSE "WAITING"]_vars

(***************************************************************************)
(* Properties of discovery (specification FetchSpec).                      *)
(***************************************************************************)
\* the exchange failed: network error, non-200 status or unparsable body
Failed(resp) == resp.raises \/ resp.status # 200 \/ ~resp.json

\* the activity answer converts to at least one record
ActivityProduces(resp) ==
    /\ ~Failed(resp)
    /\ \E i \in DOMAIN resp.items : resp.items[i].type = "sale"
    /\ \A i \in DOMAIN resp.items :
         resp.items[i].type = "sale" => resp.items[i].token # "null"

\* C8: the endpoints are queried in the order sales, activity, fills;
\* when the sales endpoint answers at least one entry nothing else is
\* queried and its entries are the result; when the activity strategy
\* produces at least one record the fills endpoint is not queried.
C8_FallbackShortCircuits ==
    fetch_out.called =>
      /\ fetch_out.requests \in {<<"sales">>, <<"sales", "activity">>,
                                 <<"sales", "activity", "fills">>}
      /\ (~Failed(upstream.sales) /\ upstream.sales.items # <<>>)
           => /\ fetch_out.requests = <<"sales">>
              /\ fetch_out.result = upstream.sales.items
      /\ ActivityProduces(upstream.activity)
           => "fills" \notin Range(fetch_out.requests)

\* C8 witness: the sales endpoint answered entries while the activity and
\* fills endpoints had entries to give, and only the sales endpoint was
\* queried.
C8_Witness ==
    /\ fetch_out.called
    /\ fetch_out.requests = <<"sales">>
    /\ fetch_out.result # <<>>
    /\ ActivityProduces(upstream.activity)
    /\ ~Failed(upstream.fills) /\ upstream.fills.items # <<>>

RECURSIVE ExpectedBids(_)
\* one bid record for every fill whose contract equals the target
\* case-insensitively, with the current time when createdAt is absent or
\* unparsable
ExpectedBids(fills) ==
    IF fills = <<>> THEN <<>>
    ELSE LET fill == Head(fills) IN
         IF fill.contract.kind = "str"
            /\ Lower(fill.contract.val) = Lower(CONTRACT_ADDRESS)
         THEN <<Sale(fill.id, fill.orderHash, "bid", "dict", fill.contract,
                     fill.tokenId, Null, "dict",
                     IF fill.createdAt = "iso" THEN "parsed" ELSE "now")>>
              \o ExpectedBids(Tail(fills))
         ELSE ExpectedBids(Tail(fills))

\* C9: when sales and activity yield nothing, bids are wanted and the
\* fills endpoint answers 200, the result is one bid record per fill of
\* the target contract (compared case-insensitively).
C9_FillsBecomeBids ==
    (/\ fetch_out.called
     /\ fetch_out.requests = <<"sales", "activity", "fills">>
     /\ ~Failed(upstream.fills))
      => fetch_out.result = ExpectedBids(upstream.fills.items)

\* C10: fetch_recent_sales never raises; a failed exchange with one
\* endpoint leaves the chain going (activity after a failed sales
\* exchange, fills after a failed activity exchange when bids are wanted);
\* when every strategy queried failed the result is the empty list.
C10_FailuresFallThrough ==
    fetch_out.called =>
      /\ ~fetch_out.raised
      /\ Failed(upstream.sales)
           => (Len(fetch_out.requests) >= 2 /\ fetch_out.requests[2] = "activity")
      /\ (Len(fetch_out.requests) >= 2 /\ Failed(upstream.activity) /\ include_bids)
           => (Len(fetch_out.requests) = 3 /\ fetch_out.requests[3] = "fills")
      /\ (/\ Failed(upstream.sales)
          /\ Failed(upstream.activity)
          /\ (include_bids => Failed(upstream.fills)))
           => fetch_out.result = <<>>

\* C10 witness: the three exchanges failed in three different ways, all
\* three endpoints were queried and the result is empty.
C10_Witness ==
    /\ fetch_out.called
    /\ upstream.sales.raises
    /\ ~upstream.activity.raises /\ ~upstream.activity.json
    /\ ~upstream.fills.raises /\ upstream.fills.status # 200
    /\ fetch_out.requests = <<"sales", "activity", "fills">>
    /\ fetch_out.result = <<>>
    /\ ~fetch_out.raised

(***************************************************************************)
(* Properties of the price sources and of the message (FormatSpec).        *)
(***************************************************************************)
\* the source answered HTTP 200 with one of the two shapes get_eth_price reads
Qualifies(resp) ==
    /\ ~resp.raises
    /\ resp.status = 200
    /\ resp.json
    /\ resp.shape \in {"ethereum", "USD"}

AllSourcesFail(apis) == \A i \in DOMAIN apis : ~Qualifies(apis[i])

\* a record of the target contract whose fields the formatter can read
ValidRecord(sale) ==
    /\ sale.token = "dict"
    /\ sale.price = "dict"
    /\ sale.contract.kind = "str"
    /\ Lower(sale.contract.val) = Lower(CONTRACT_ADDRESS)
    /\ sale.tokenId.kind = "str"
    /\ sale.name.kind \in {"str", "missing", "null"}

Formatted == fmt_out.called /\ fmt_out.message # NoMessage

\* C11 as stated: when every price source fails, the message of an otherwise
\* valid record is produced and shows the placeholder instead of a fiat number.
C11_PlaceholderWhenAllFail ==
    (fmt_out.called /\ ValidRecord(fmt_in.sale) /\ AllSourcesFail(fmt_in.apis))
        => (Formatted /\ fmt_out.message.usd.placeholder)

\* C11, amended: when every price source fails, the message of an otherwise
\* valid record is produced (formatting neither raises nor returns None) and
\* shows the fiat amount at the fallback rate 1825.00, never the placeholder.
C11_FallbackRateWhenAllFail ==
    (fmt_out.called /\ ValidRecord(fmt_in.sale) /\ AllSourcesFail(fmt_in.apis))
        => /\ Formatted
           /\ ~fmt_out.message.usd.placeholder
           /\ fmt_out.message.usd.rate = FALLBACK_ETH_PRICE

C11_Witness ==
    /\ fmt_out.called
    /\ ValidRecord(fmt_in.sale)
    /\ AllSourcesFail(fmt_in.apis)
    /\ fmt_in.apis[1] = PriceNetError
    /\ fmt_in.apis[2] = PriceOk("ethereum_no_usd", Null)
    /\ fmt_out.message.usd.rate = FALLBACK_ETH_PRICE

\* the first source in the configured order that qualifies
FirstQualifying(apis) ==
    CHOOSE i \in DOMAIN apis :
        Qualifies(apis[i]) /\ \A j \in DOMAIN apis : Qualifies(apis[j]) => i <= j

\* C12: get_eth_price never raises; it asks the sources in their order and
\* returns the rate of the first one that answers HTTP 200 with a shape it
\* recognises, asking no source after it; sources that error, answer non-200
\* or have another shape are passed over; when none qualifies every source
\* was asked and the result is the fallback constant.
C12_FirstQualifyingSourceWins ==
    fmt_out.price.called =>
        /\ ~fmt_out.price.raised
        /\ IF AllSourcesFail(fmt_in.apis)
           THEN /\ fmt_out.price.fallback
                /\ fmt_out.price.value = Num(FALLBACK_ETH_PRICE)
                /\ fmt_out.price.tried = Len(fmt_in.apis)
           ELSE /\ ~fmt_out.price.fallback
                /\ fmt_out.price.value = fmt_in.apis[FirstQualifying(fmt_in.apis)].price
                /\ fmt_out.price.tried = FirstQualifying(fmt_in.apis)

\* the first source raised, the second one gave the rate
C12_Witness ==
    /\ fmt_out.price.called
    /\ fmt_in.apis[1] = PriceBadJson
    /\ fmt_in.apis[2] = PriceOk("USD", Num(1900))
    /\ fmt_out.price.value = Num(1900)
    /\ fmt_out.price.tried = 2

\* a token name that is present: a non-empty string
NamePresent(token_name) == token_name.kind = "str" /\ token_name.val # <<>>

\* the precedence (a) to (e) as C16 states it
ClaimDisplayId(token_id, token_name) ==
    IF IsIntLiteral(token_id.val) THEN Str(IntToChars(ParseInt(token_id.val)))
    ELSE IF /\ Len(token_id.val) > 10
            /\ NamePresent(token_name)
            /\ HashDigitAt(token_name.val) # {}
    THEN Str(HashNumber(token_name.val))
    ELSE IF NamePresent(token_name) THEN token_name
    ELSE IF Len(token_id.val) > 8 THEN Str(Shortened(token_id.val))
    ELSE token_id

\* C16 as stated: for every token id and token name the display id of the
\* message is the one the precedence (a) to (e) gives.
C16_DisplayIdPrecedence ==
    (Formatted /\ ValidRecord(fmt_in.sale))
        => fmt_out.message.display_id
             = ClaimDisplayId(fmt_in.sale.tokenId, fmt_in.sale.name)

(***************************************************************************)
(* Properties of the image lookup (ImageSpec).                             *)
(***************************************************************************)
\* the primary path ended with a saved image
PrimarySaved(w) ==
    /\ w.primary = MetaOk("image")
    /\ w.download = ImgOk(TRUE)

\* C13 as stated: whenever the primary path does not end with a saved image,
\* an exception raised by the primary request or download included, the
\* secondary lookup is requested before download_nft_image returns None.
C13_SecondaryBeforeNull ==
    (img_out.called /\ ~PrimarySaved(img_in))
        => "opensea" \in {img_out.requests[i] : i \in DOMAIN img_out.requests}

(***************************************************************************)
(* Further properties of the poll loop (specification Spec).               *)
(***************************************************************************)
\* the last iteration got a message from format_sale_message
MessageFormatted ==
    /\ "format" \in Range(last.calls)
    /\ last.outcome # "no_message"

\* C14: download_nft_image never raises to process_new_sales, and an
\* iteration whose message was formatted calls download_nft_image once and
\* then post_to_twitter exactly once, with the path or with None.
C14_ImageNeverBlocksPost ==
    MessageFormatted =>
        /\ Count(last.calls, "image") = 1
        /\ Count(last.calls, "post") = 1
        /\ last.image \in {"path", "none"}
        /\ last.post \in {"true", "false"}

\* a sale was published although no image could be saved
C14_Witness ==
    /\ MessageFormatted
    /\ last.image = "none"
    /\ last.post = "true"
    /\ mainState = "CHECKING"

\* the record names a contract, and it is not the target one in any case
ContractDiffers(sale) ==
    /\ sale.token = "dict"
    /\ sale.contract.kind = "str"
    /\ sale.contract.val # <<>>
    /\ Lower(sale.contract.val) # Lower(CONTRACT_ADDRESS)

\* C15: for a record whose contract is present and differs from the target
\* whatever the case of the letters, format_sale_message returns None, and
\* the iteration of the poll loop that examines it ends before formatting:
\* no call of format_sale_message, download_nft_image or post_to_twitter,
\* no append and no save.
C15_OtherContractDiscarded ==
    (AfterIteration /\ ContractDiffers(Examined)) =>
        /\ \A apis \in PollPrices : format_sale_message(Examined, apis) = NoMessage
        /\ last.outcome \in {"other_contract", "duplicate"}
        /\ last.calls = <<>>
        /\ last.image = "none"
        /\ last.post = "none"

C15_Witness ==
    /\ AfterIteration
    /\ ContractDiffers(Examined)
    /\ last.outcome = "other_contract"
    /\ SaleId(Examined) \notin Range(file.ids)

IsPrefix(p, q) == Len(p) <= Len(q) /\ SubSeq(q, 1, Len(p)) = p

NoDuplicates(q) == \A i, j \in DOMAIN q : q[i] = q[j] => i = j

C19_NoPublishNoWrite ==
    cycle.posts = 0 => (file = cycle.file /\ sales_processed = 0)

\* the cycle ended after a publish failed; nothing was written
C19_Witness ==
    /\ mainState = "CHECKING"
    /\ pc = "done"
    /\ cycle.posts = 0
    /\ last.outcome = "post_failed"
    /\ file = cycle.file
    /\ sales_processed = 0

(***************************************************************************)
(* Properties of test mode (TestSpec, and RelaunchSpec for the poll loop   *)
(* started after it).                                                      *)
(***************************************************************************)
TestDone == mainState = "TEST" /\ pc \in {"returned", "raised"}

\* what holds of test_post_last_sale at every point of its run
TestBounded ==
    /\ attempt <= max_attempts
    /\ test_out.lookbacks = SubSeq(time_periods, 1, attempt)
    /\ Len(test_out.posted) <= 1
    /\ Len(test_out.posted) = 1 =>
          /\ pc = "returned"
          /\ last.post = "true"
          /\ test_out.posted[1] = SaleId(recent_sales[idx])
    /\ pc = "returned" =>
          /\ test_out.returned \in {"true", "false"}
          /\ test_out.returned = "true" <=> Len(test_out.posted) = 1

\* C17: test_post_last_sale terminates (it returns, or an exception ends
\* it); it makes at most 3 discovery attempts, with the lookbacks 365, 730
\* and 1095 days in this order; it makes no attempt after one that returned
\* records; it publishes at most one sale, the record of that batch at which
\* the post succeeded; and it returns True exactly when a sale was published.
C17_TestModeTerminates ==
    /\ []TestBounded
    /\ [][attempt' # attempt => recent_sales = <<>>]_vars
    /\ <>TestDone

\* the third attempt found a batch whose second record was published
C17_Witness ==
    /\ TestDone
    /\ test_out.returned = "true"
    /\ test_out.lookbacks = <<365, 730, 1095>>
    /\ idx = 2
    /\ Len(test_out.posted) = 1

\* C20: while test_post_last_sale runs the file holds the list it held when
\* the process started and the list is never loaded; and when a poll cycle
\* started afterwards skips a sale that test mode published as a duplicate,
\* it is because the id was in the file before the test or was published by
\* the poll loop itself, never because of the test.
C20_TestLeavesStore ==
    /\ mainState = "TEST" =>
          /\ file = [ok |-> TRUE, ids |-> test_out.store]
          /\ processed_sales = <<>>
    /\ (/\ AfterIteration
        /\ last.outcome = "duplicate"
        /\ SaleId(Examined) \in Range(test_out.posted))
          => SaleId(Examined) \in Range(test_out.store) \cup published

\* the poll loop published the sale that test mode had published
C20_Witness ==
    /\ AfterIteration
    /\ last.outcome = "posted"
    /\ test_out.posted = <<SaleId(Examined)>>
    /\ test_out.store = <<>>
    /\ idx = 2

MediaFailed ==
    /\ post_in.image_path = "path"
    /\ post_in.world.exists
    /\ post_in.world.client
    /\ post_in.world.auth
    /\ ~post_in.world.upload \/ ~post_in.world.create_media

\* one of the create_tweet calls that were made returned normally
CreateReturned ==
    \/ "create_media" \in Range(post_out.calls) /\ post_in.world.create_media
    \/ "create_text" \in Range(post_out.calls) /\ post_in.world.create_text

\* C22: post_to_twitter never raises; when the upload or the post with media
\* raised, exactly one post without media is attempted, after it; and the
\* result is True only if a create_tweet call returned normally, and False
\* otherwise.
C22_DegradesToTextOnly ==
    post_out.called =>
        /\ ~post_out.raised
        /\ MediaFailed =>
              /\ Count(post_out.calls, "create_text") = 1
              /\ post_out.calls[Len(post_out.calls)] = "create_text"
        /\ Count(post_out.calls, "create_text") <= 1
        /\ Count(post_out.calls, "create_media") <= 1
        /\ post_out.value => CreateReturned
        /\ ~CreateReturned => post_out.value = FALSE

\* the upload raised and the post without media went through
C22_Witness ==
    /\ post_out.called
    /\ MediaFailed
    /\ post_out.calls = <<"upload", "create_text">>
    /\ post_out.value
=============================================================================
